---- MODULE Spec2Model ----
(***************************************************************************)
(* Model of sentry.eventstream.kafka.state:                                *)
(* SynchronizedPartitionStateManager, the state machine that tracks the    *)
(* progress of a local Kafka consumer relative to a remote consumer.       *)
(*                                                                         *)
(* The module is Python 2 code (from __future__ import absolute_import):   *)
(* ordering comparisons against None do not raise, None orders below every *)
(* integer.  PyLt / PyGe below compute the comparisons that way.           *)
(***************************************************************************)
EXTENDS Integers, Sequences, FiniteSets, TLC

\* ------------------------------------------------------------------ bounds
\* Offsets handed to the manager range over 0..MaxOffset.
MaxOffset == 2

\* The end-to-end scenario ends by validating every offset 0..MaxScenarioOffset.
MaxScenarioOffset == 110

\* The (topic, partition) keys the callers use.
Topics == {"T"}
PartitionIds == {0, 1}
Keys == Topics \X PartitionIds

\* ------------------------------------------------------------ value model
\* An optional integer: None is the empty tuple, an integer n is <<n>>.
None == <<>>
Some(n) == <<n>>
IsInt(v) == v # None
IntOf(v) == v[1]
IntOffsets == {Some(n) : n \in 0..MaxOffset}
OffsetArgs == IntOffsets \cup {None}

\* Python 2 ordering with None: None < every integer, nothing < None.
PyLt(a, b) ==
    IF a = None THEN b # None
    ELSE IF b = None THEN FALSE
    ELSE IntOf(a) < IntOf(b)

PyGe(a, b) == ~PyLt(a, b)

\* namedtuple('Offsets', 'local remote')
Offsets(l, r) == [local |-> l, remote |-> r]

\* PartitionState, plus the None state of a record that was never updated.
SYNCHRONIZED == "SYNCHRONIZED"
LOCAL_BEHIND == "LOCAL_BEHIND"
REMOTE_BEHIND == "REMOTE_BEHIND"
UNKNOWN == "UNKNOWN"
NONE == "NONE"
PartitionState == {SYNCHRONIZED, LOCAL_BEHIND, REMOTE_BEHIND, UNKNOWN}

\* A stored value of self.partitions: the tuple (state, offsets).
Record(s, o) == [state |-> s, offsets |-> o]

\* defaultdict's factory: lambda: (None, Offsets(None, None))
DefaultRecord == Record(NONE, Offsets(None, None))

\* ------------------------------------------------------------------ state
VARIABLES
    partitions,  \* self.partitions: the entries the defaultdict holds
    call,        \* the most recent call: operation, key, argument, outcome
    callbacks,   \* the invocations of self.callback made by that call
    logged,      \* the log messages emitted by that call
    history,     \* per key: the arguments of the latest set_* calls
    last_callback, \* per key: the updated state of the latest callback
    threads,     \* the set_* calls in progress when calls are not serialized
    raced,       \* a call in progress has written from an outdated read
    step         \* the position of the end-to-end scenario

vars == <<partitions, call, callbacks, logged, history, last_callback,
          threads, raced, step>>

\* self.partitions[key] as an expression: the stored entry, or the default.
Lookup(p, key) == IF key \in DOMAIN p THEN p[key] ELSE DefaultRecord

\* self.partitions[key] read through the defaultdict: a missing key is
\* inserted with the default record.
Vivify(p, key) ==
    [k \in DOMAIN p \cup {key} |-> IF k \in DOMAIN p THEN p[k] ELSE DefaultRecord]

\* Variant: records are keyed by topic alone.
Store_by_topic(p, key, rec) ==
    [k \in DOMAIN p \cup {key} |-> IF k[1] = key[1] THEN rec ELSE p[k]]

\* self.partitions[key] = rec
Store(p, key, rec) ==
    [k \in DOMAIN p \cup {key} |-> IF k = key THEN rec ELSE p[k]]

\* ------------------------------------------------------- pure functions
\* Variant: the row of the None state is empty.
transitions_none_empty ==
    [s \in PartitionState \cup {NONE} |->
        CASE s = NONE -> {}
          [] s = UNKNOWN -> {LOCAL_BEHIND, REMOTE_BEHIND, SYNCHRONIZED}
          [] s = REMOTE_BEHIND -> {LOCAL_BEHIND, SYNCHRONIZED}
          [] s = LOCAL_BEHIND -> {SYNCHRONIZED, REMOTE_BEHIND}
          [] s = SYNCHRONIZED -> {LOCAL_BEHIND, REMOTE_BEHIND}]

\* Variant: REMOTE_BEHIND -> LOCAL_BEHIND is missing from the table.
transitions_no_recovery ==
    [s \in PartitionState \cup {NONE} |->
        CASE s = NONE -> {UNKNOWN}
          [] s = UNKNOWN -> {LOCAL_BEHIND, REMOTE_BEHIND, SYNCHRONIZED}
          [] s = REMOTE_BEHIND -> {SYNCHRONIZED}
          [] s = LOCAL_BEHIND -> {SYNCHRONIZED, REMOTE_BEHIND}
          [] s = SYNCHRONIZED -> {LOCAL_BEHIND, REMOTE_BEHIND}]

transitions ==
    [s \in PartitionState \cup {NONE} |->
        CASE s = NONE -> {UNKNOWN}
          [] s = UNKNOWN -> {LOCAL_BEHIND, REMOTE_BEHIND, SYNCHRONIZED}
          [] s = REMOTE_BEHIND -> {LOCAL_BEHIND, SYNCHRONIZED}
          [] s = LOCAL_BEHIND -> {SYNCHRONIZED, REMOTE_BEHIND}
          [] s = SYNCHRONIZED -> {LOCAL_BEHIND, REMOTE_BEHIND}]

\* Variant: LOCAL_BEHIND and REMOTE_BEHIND returned the wrong way round.
get_state_from_offsets_swapped(offsets) ==
    IF offsets.local = None \/ offsets.remote = None
    THEN UNKNOWN
    ELSE IF IntOf(offsets.local) < IntOf(offsets.remote) THEN REMOTE_BEHIND
    ELSE IF IntOf(offsets.remote) < IntOf(offsets.local) THEN LOCAL_BEHIND
    ELSE SYNCHRONIZED

\* Variant: the first comparison is <= instead of <.
get_state_from_offsets_le(offsets) ==
    IF offsets.local = None \/ offsets.remote = None
    THEN UNKNOWN
    ELSE IF IntOf(offsets.local) <= IntOf(offsets.remote) THEN LOCAL_BEHIND
    ELSE IF IntOf(offsets.remote) < IntOf(offsets.local) THEN REMOTE_BEHIND
    ELSE SYNCHRONIZED

get_state_from_offsets(offsets) ==
    IF offsets.local = None \/ offsets.remote = None
    THEN UNKNOWN
    ELSE IF IntOf(offsets.local) < IntOf(offsets.remote) THEN LOCAL_BEHIND
    ELSE IF IntOf(offsets.remote) < IntOf(offsets.local) THEN REMOTE_BEHIND
    ELSE SYNCHRONIZED

\* Variant: the self-transition exemption is missing.
InvalidTransition_no_self(previous_state, updated_state) ==
    updated_state \notin transitions[previous_state]

\* Variant: "is" for "is not": only self-transitions are checked.
InvalidTransition_is(previous_state, updated_state) ==
    /\ previous_state = updated_state
    /\ updated_state \notin transitions[previous_state]

\* The guard of the raise in set_local_offset / set_remote_offset.
InvalidTransition(previous_state, updated_state) ==
    /\ previous_state # updated_state
    /\ updated_state \notin transitions[previous_state]

\* One invocation of self.callback.
Invocation(key, previous, updated) ==
    [key |-> key, previous |-> previous, updated |-> updated]

\* Variant: the callback fires whenever the record changed.
notify_on_any_change(key, previous, updated) ==
    IF previous # updated
    THEN <<Invocation(key, previous, updated)>>
    ELSE <<>>

\* Variant: the None state is tested for truth, so the first transition of
\* a key is not reported.
notify_skip_first(key, previous, updated) ==
    IF previous.state # NONE /\ previous.state # updated.state
    THEN <<Invocation(key, previous, updated)>>
    ELSE <<>>

\* The callback invocations of a successful update: one if the state
\* changed, none otherwise.
notify(key, previous, updated) ==
    IF previous.state # updated.state
    THEN <<Invocation(key, previous, updated)>>
    ELSE <<>>

\* The callback runs with the store as the call has left it: each
\* invocation is recorded with the record it finds stored for its key.
observe(invocations, p) ==
    [i \in DOMAIN invocations |->
        [key |-> invocations[i].key,
         previous |-> invocations[i].previous,
         updated |-> invocations[i].updated,
         stored |-> Lookup(p, invocations[i].key)]]

\* The callback stream of a key: the updated state of its latest invocation.
latest(last, invocations) ==
    IF invocations = <<>> THEN last
    ELSE [last EXCEPT ![invocations[Len(invocations)].key] =
                          invocations[Len(invocations)].updated.state]

\* Variant: the fields of the pair are given in the wrong order.
local_update_swapped(previous_offsets, local_offset) ==
    Offsets(previous_offsets.remote, local_offset)

\* updated_offsets of set_local_offset / set_remote_offset.
local_update(previous_offsets, local_offset) ==
    Offsets(local_offset, previous_offsets.remote)

\* Variant: the new value is written to both sides of the pair.
remote_update_both(previous_offsets, remote_offset) ==
    Offsets(remote_offset, remote_offset)

\* Variant: the pair is rebuilt from the new remote offset alone.
remote_update_reset(previous_offsets, remote_offset) ==
    Offsets(None, remote_offset)

\* Variant: a regressing remote offset is ignored (the larger value is kept).
remote_update_monotonic(previous_offsets, remote_offset) ==
    Offsets(previous_offsets.local,
            IF PyLt(remote_offset, previous_offsets.remote)
            THEN previous_offsets.remote ELSE remote_offset)

remote_update(previous_offsets, remote_offset) ==
    Offsets(previous_offsets.local, remote_offset)

\* The record of the most recent call.  A call that takes no key has NoKey.
NoKey == <<>>
Call(op, key, value, outcome) ==
    [op |-> op, key |-> key, value |-> value, outcome |-> outcome]

\* A caller thread per offset kind: one calls set_local_offset, the other
\* set_remote_offset.  An idle thread has no call in progress.
Threads == {"local", "remote"}
Idle == [pc |-> "idle"]

\* ------------------------------------------------------------ operations
\* Variant: the callback is invoked before the record is stored.
set_local_offset_callback_first(key, local_offset) ==
    LET previous == Lookup(partitions, key)
        previous_state == previous.state
        previous_offsets == previous.offsets
        backwards == IF PyLt(local_offset, previous_offsets.local)
                     THEN {"local_moved_backwards"} ELSE {}
        updated_offsets == local_update(previous_offsets, local_offset)
        updated_state == get_state_from_offsets(updated_offsets)
        updated == Record(updated_state, updated_offsets)
    IN  /\ history' = [history EXCEPT ![key].local = <<local_offset>>,
                                      ![key].ints = @ /\ IsInt(local_offset)]
        /\ IF InvalidTransition(previous_state, updated_state)
           THEN /\ partitions' = Vivify(partitions, key)
                /\ callbacks' = <<>>
                /\ logged' = backwards
                /\ call' = Call("set_local_offset", key, local_offset,
                                "InvalidStateTransition")
           ELSE /\ callbacks' = observe(notify(key, previous, updated),
                                        partitions)
                /\ partitions' = Store(partitions, key, updated)
                /\ logged' = backwards \cup
                     (IF previous_state # updated_state
                         /\ updated_state = REMOTE_BEHIND
                      THEN {"local_exceeds_remote"} ELSE {})
                /\ call' = Call("set_local_offset", key, local_offset, "ok")
        /\ last_callback' = latest(last_callback, callbacks')

set_local_offset(key, local_offset) ==
    LET previous == Lookup(partitions, key)
        previous_state == previous.state
        previous_offsets == previous.offsets
        backwards == IF PyLt(local_offset, previous_offsets.local)
                     THEN {"local_moved_backwards"} ELSE {}
        updated_offsets == local_update(previous_offsets, local_offset)
        updated_state == get_state_from_offsets(updated_offsets)
        updated == Record(updated_state, updated_offsets)
    IN  /\ history' = [history EXCEPT ![key].local = <<local_offset>>,
                                      ![key].ints = @ /\ IsInt(local_offset)]
        /\ IF InvalidTransition(previous_state, updated_state)
           THEN /\ partitions' = Vivify(partitions, key)
                /\ callbacks' = <<>>
                /\ logged' = backwards
                /\ call' = Call("set_local_offset", key, local_offset,
                                "InvalidStateTransition")
           ELSE /\ partitions' = Store(partitions, key, updated)
                /\ callbacks' = observe(notify(key, previous, updated),
                                        partitions')
                /\ logged' = backwards \cup
                     (IF previous_state # updated_state
                         /\ updated_state = REMOTE_BEHIND
                      THEN {"local_exceeds_remote"} ELSE {})
                /\ call' = Call("set_local_offset", key, local_offset, "ok")
        /\ last_callback' = latest(last_callback, callbacks')

\* Variant: the record is stored before the transition is validated.
set_remote_offset_store_first(key, remote_offset) ==
    LET previous == Lookup(partitions, key)
        previous_state == previous.state
        previous_offsets == previous.offsets
        backwards == IF PyLt(remote_offset, previous_offsets.remote)
                     THEN {"remote_moved_backwards"} ELSE {}
        updated_offsets == remote_update(previous_offsets, remote_offset)
        updated_state == get_state_from_offsets(updated_offsets)
        updated == Record(updated_state, updated_offsets)
    IN  /\ history' = [history EXCEPT ![key].remote = <<remote_offset>>,
                                      ![key].ints = @ /\ IsInt(remote_offset)]
        /\ partitions' = Store(partitions, key, updated)
        /\ logged' = backwards
        /\ IF InvalidTransition(previous_state, updated_state)
           THEN /\ callbacks' = <<>>
                /\ call' = Call("set_remote_offset", key, remote_offset,
                                "InvalidStateTransition")
           ELSE /\ callbacks' = observe(notify(key, previous, updated),
                                        partitions')
                /\ call' = Call("set_remote_offset", key, remote_offset, "ok")
        /\ last_callback' = latest(last_callback, callbacks')

set_remote_offset(key, remote_offset) ==
    LET previous == Lookup(partitions, key)
        previous_state == previous.state
        previous_offsets == previous.offsets
        backwards == IF PyLt(remote_offset, previous_offsets.remote)
                     THEN {"remote_moved_backwards"} ELSE {}
        updated_offsets == remote_update(previous_offsets, remote_offset)
        updated_state == get_state_from_offsets(updated_offsets)
        updated == Record(updated_state, updated_offsets)
    IN  /\ history' = [history EXCEPT ![key].remote = <<remote_offset>>,
                                      ![key].ints = @ /\ IsInt(remote_offset)]
        /\ IF InvalidTransition(previous_state, updated_state)
           THEN /\ partitions' = Vivify(partitions, key)
                /\ callbacks' = <<>>
                /\ logged' = backwards
                /\ call' = Call("set_remote_offset", key, remote_offset,
                                "InvalidStateTransition")
           ELSE /\ partitions' = Store(partitions, key, updated)
                /\ callbacks' = observe(notify(key, previous, updated),
                                        partitions')
                /\ logged' = backwards
                /\ call' = Call("set_remote_offset", key, remote_offset, "ok")
        /\ last_callback' = latest(last_callback, callbacks')

\* Variant: the state gate is missing.
validate_outcome_no_gate(record, offset) ==
    IF PyGe(offset, record.offsets.remote) THEN "MessageNotReady"
    ELSE "ok"

\* Variant: the readiness test is > instead of >=.
validate_outcome_gt(record, offset) ==
    IF record.state # LOCAL_BEHIND THEN "InvalidState"
    ELSE IF PyLt(record.offsets.remote, offset) THEN "MessageNotReady"
    ELSE "ok"

\* Variant: a message below the local offset is rejected instead of logged.
validate_outcome_strict(record, offset) ==
    IF record.state # LOCAL_BEHIND THEN "InvalidState"
    ELSE IF PyGe(offset, record.offsets.remote) THEN "MessageNotReady"
    ELSE IF PyLt(offset, record.offsets.local) THEN "InvalidState"
    ELSE "ok"

\* The outcome of validate_local_message on a record.
validate_outcome(record, offset) ==
    IF record.state # LOCAL_BEHIND THEN "InvalidState"
    ELSE IF PyGe(offset, record.offsets.remote) THEN "MessageNotReady"
    ELSE "ok"

\* Variant: an admitted message advances the stored local offset.
validate_local_message_advancing(key, offset) ==
    LET record == Lookup(partitions, key)
        outcome == validate_outcome(record, offset)
    IN  /\ partitions' =
             IF outcome = "ok"
             THEN Store(partitions, key,
                        Record(record.state,
                               Offsets(offset, record.offsets.remote)))
             ELSE Vivify(partitions, key)
        /\ callbacks' = <<>>
        /\ logged' = IF outcome = "ok" /\ PyLt(offset, record.offsets.local)
                     THEN {"message_prior_to_local_offset"} ELSE {}
        /\ call' = Call("validate_local_message", key, offset, outcome)
        /\ UNCHANGED <<history, last_callback>>

validate_local_message(key, offset) ==
    LET record == Lookup(partitions, key)
        outcome == validate_outcome(record, offset)
    IN  /\ partitions' = Vivify(partitions, key)
        /\ callbacks' = <<>>
        /\ logged' = IF outcome = "ok" /\ PyLt(offset, record.offsets.local)
                     THEN {"message_prior_to_local_offset"} ELSE {}
        /\ call' = Call("validate_local_message", key, offset, outcome)
        /\ UNCHANGED <<history, last_callback>>

\* A caller evaluating the public method get_state_from_offsets.
derive_state(offsets) ==
    /\ call' = Call("get_state_from_offsets", NoKey, offsets,
                    get_state_from_offsets(offsets))
    /\ callbacks' = <<>>
    /\ logged' = {}
    /\ UNCHANGED <<partitions, history, last_callback>>

\* ---------------------------------------------------------- specification
\* __init__: an empty defaultdict; no call has been made.
Init ==
    /\ partitions = <<>>
    /\ call = Call("__init__", NoKey, None, "ok")
    /\ callbacks = <<>>
    /\ logged = {}
    /\ history = [k \in Keys |-> [local |-> <<>>, remote |-> <<>>, ints |-> TRUE]]
    /\ last_callback = [k \in Keys |-> NONE]
    /\ threads = [t \in Threads |-> Idle]
    /\ raced = FALSE
    /\ step = 0

\* Serialized callers: each call runs to completion before the next starts.
serialized == UNCHANGED <<threads, raced, step>>

SetLocal ==
    \E key \in Keys, v \in OffsetArgs : set_local_offset(key, v) /\ serialized
SetRemote ==
    \E key \in Keys, v \in OffsetArgs : set_remote_offset(key, v) /\ serialized
Validate ==
    \E key \in Keys, v \in IntOffsets :
        validate_local_message(key, v) /\ serialized

Next == SetLocal \/ SetRemote \/ Validate

Spec == Init /\ [][Next]_vars

\* The pure function get_state_from_offsets applied to every offsets pair,
\* next to a store that the updates of one key keep changing.
Derive ==
    \E l \in OffsetArgs, r \in OffsetArgs :
        derive_state(Offsets(l, r)) /\ serialized
DeriveKey == CHOOSE key \in Keys : TRUE
UpdateLocal == \E v \in OffsetArgs : set_local_offset(DeriveKey, v) /\ serialized
UpdateRemote == \E v \in OffsetArgs : set_remote_offset(DeriveKey, v) /\ serialized

NextDerive == Derive \/ UpdateLocal \/ UpdateRemote

SpecDerive == Init /\ [][NextDerive]_vars

\* -------------------------------------------------- end-to-end scenario
\* The calls of the scenario on the fresh key (T, 0), in its order:
\* set_remote_offset(100), set_local_offset(50), validate_local_message(60),
\* set_local_offset(100), then validate_local_message of any offset.
ScenarioKey == <<"T", 0>>

scenario_remote_100 ==
    /\ step = 0
    /\ set_remote_offset(ScenarioKey, Some(100))
    /\ step' = 1
    /\ UNCHANGED <<threads, raced>>

scenario_local_50 ==
    /\ step = 1
    /\ set_local_offset(ScenarioKey, Some(50))
    /\ step' = 2
    /\ UNCHANGED <<threads, raced>>

scenario_validate_60 ==
    /\ step = 2
    /\ validate_local_message(ScenarioKey, Some(60))
    /\ step' = 3
    /\ UNCHANGED <<threads, raced>>

scenario_local_100 ==
    /\ step = 3
    /\ set_local_offset(ScenarioKey, Some(100))
    /\ step' = 4
    /\ UNCHANGED <<threads, raced>>

scenario_validate_any ==
    /\ step \in {4, 5}
    /\ \E offset \in 0..MaxScenarioOffset :
          validate_local_message(ScenarioKey, Some(offset))
    /\ step' = 5
    /\ UNCHANGED <<threads, raced>>

NextScenario ==
    \/ scenario_remote_100
    \/ scenario_local_50
    \/ scenario_validate_60
    \/ scenario_local_100
    \/ scenario_validate_any

SpecScenario == Init /\ [][NextScenario]_vars

\* ------------------------------------------------ unserialized callers
\* set_local_offset and set_remote_offset called from two threads with no
\* lock: a call reads the record, then validates and writes it, then runs
\* the callback, and the other thread may run between any two of these.
\* Of a call's effects the store, the arguments and the callback stream are
\* followed here; call, callbacks and logged describe serialized calls only.
Active(pc, key, value, previous, pending) ==
    [pc |-> pc, key |-> key, value |-> value, previous |-> previous,
     pending |-> pending]

\* previous_state, previous_offsets = self.partitions[(topic, partition)]
race_read(t, key, value) ==
    /\ threads[t].pc = "idle"
    /\ threads' = [threads EXCEPT
                      ![t] = Active("read", key, value,
                                    Lookup(partitions, key), <<>>)]
    /\ partitions' = Vivify(partitions, key)
    /\ history' = IF t = "local"
                  THEN [history EXCEPT ![key].local = <<value>>,
                                       ![key].ints = @ /\ IsInt(value)]
                  ELSE [history EXCEPT ![key].remote = <<value>>,
                                       ![key].ints = @ /\ IsInt(value)]
    /\ raced' = (raced \/ \E o \in Threads \ {t} :
                             threads[o].pc # "idle" /\ threads[o].key = key)
    /\ UNCHANGED <<call, callbacks, logged, last_callback, step>>

\* Variant: the write pairs the new offset with the other side as stored now,
\* but keeps the state computed from the earlier read.
race_write_merge(t) ==
    LET self == threads[t]
        current == Lookup(partitions, self.key)
        updated_offsets ==
            IF t = "local"
            THEN local_update(self.previous.offsets, self.value)
            ELSE remote_update(self.previous.offsets, self.value)
        merged_offsets ==
            IF t = "local"
            THEN local_update(current.offsets, self.value)
            ELSE remote_update(current.offsets, self.value)
        updated_state == get_state_from_offsets(updated_offsets)
        updated == Record(updated_state, merged_offsets)
        pending == notify(self.key, self.previous, updated)
    IN  /\ self.pc = "read"
        /\ IF InvalidTransition(self.previous.state, updated_state)
           THEN /\ threads' = [threads EXCEPT ![t] = Idle]
                /\ UNCHANGED partitions
           ELSE /\ partitions' = Store(partitions, self.key, updated)
                /\ threads' =
                     IF pending = <<>>
                     THEN [threads EXCEPT ![t] = Idle]
                     ELSE [threads EXCEPT
                             ![t] = Active("written", self.key, self.value,
                                           self.previous, pending)]
        /\ UNCHANGED <<call, callbacks, logged, history, last_callback,
                       raced, step>>

\* The transition check and self.partitions[(topic, partition)] = ..., from
\* the record the thread read; a raise ends the call.
race_write(t) ==
    LET self == threads[t]
        updated_offsets ==
            IF t = "local"
            THEN local_update(self.previous.offsets, self.value)
            ELSE remote_update(self.previous.offsets, self.value)
        updated_state == get_state_from_offsets(updated_offsets)
        updated == Record(updated_state, updated_offsets)
        pending == notify(self.key, self.previous, updated)
    IN  /\ self.pc = "read"
        /\ IF InvalidTransition(self.previous.state, updated_state)
           THEN /\ threads' = [threads EXCEPT ![t] = Idle]
                /\ UNCHANGED partitions
           ELSE /\ partitions' = Store(partitions, self.key, updated)
                /\ threads' =
                     IF pending = <<>>
                     THEN [threads EXCEPT ![t] = Idle]
                     ELSE [threads EXCEPT
                             ![t] = Active("written", self.key, self.value,
                                           self.previous, pending)]
        /\ UNCHANGED <<call, callbacks, logged, history, last_callback,
                       raced, step>>

\* self.callback(topic, partition, previous, updated), then the call returns.
race_callback(t) ==
    /\ threads[t].pc = "written"
    /\ last_callback' = latest(last_callback, threads[t].pending)
    /\ threads' = [threads EXCEPT ![t] = Idle]
    /\ UNCHANGED <<partitions, call, callbacks, logged, history, raced, step>>

\* Both threads update the same key: the case the callers' discipline of one
\* owner per key excludes.
RaceKey == CHOOSE key \in Keys : TRUE
RaceRead == \E t \in Threads, v \in OffsetArgs : race_read(t, RaceKey, v)
RaceWrite == \E t \in Threads : race_write(t)
RaceCallback == \E t \in Threads : race_callback(t)

NextRace == RaceRead \/ RaceWrite \/ RaceCallback

SpecRace == Init /\ [][NextRace]_vars

\* ------------------------------------------------------------- properties
\* The record a caller observes for a key.
Stored(key) == Lookup(partitions, key)

SetOps == {"set_local_offset", "set_remote_offset"}
Raised == "InvalidStateTransition"

\* The relationship state an offsets pair stands for (section 3 of the
\* specification): UNKNOWN if a side is absent, else by comparison.
ExpectedState(o) ==
    IF o.local = None \/ o.remote = None THEN UNKNOWN
    ELSE CASE o.local[1] < o.remote[1] -> LOCAL_BEHIND
           [] o.local[1] > o.remote[1] -> REMOTE_BEHIND
           [] o.local[1] = o.remote[1] -> SYNCHRONIZED

\* The allowed-transition table of section 4 of the specification.
AllowedTable(from) ==
    CASE from = NONE -> {UNKNOWN}
      [] from = UNKNOWN -> {LOCAL_BEHIND, REMOTE_BEHIND, SYNCHRONIZED}
      [] from = REMOTE_BEHIND -> {LOCAL_BEHIND, SYNCHRONIZED}
      [] from = LOCAL_BEHIND -> {SYNCHRONIZED, REMOTE_BEHIND}
      [] from = SYNCHRONIZED -> {LOCAL_BEHIND, REMOTE_BEHIND}

\* The offsets pair a set_* call c asks for, given the pair stored before it.
Requested(before, c) ==
    IF c.op = "set_local_offset"
    THEN [local |-> c.value, remote |-> before.remote]
    ELSE [local |-> before.local, remote |-> c.value]

\* n (an integer) is strictly below the optional integer v.
Below(n, v) == v # None /\ n < v[1]

\* C1: admission safety.  While every set_local_offset / set_remote_offset
\* call on a key passed an integer, a validate_local_message call on that key
\* that returned without error was given an offset strictly less than the
\* value of the most recent set_remote_offset call for the key; so nothing is
\* admitted before a remote offset has been observed.
C1_AdmissionSafety ==
    (/\ call.op = "validate_local_message"
     /\ call.outcome = "ok"
     /\ history[call.key].ints)
    => /\ history[call.key].remote # <<>>
       /\ Below(call.value[1], history[call.key].remote[1])

C1_Witness ==
    /\ call.op = "validate_local_message"
    /\ call.outcome = "ok"
    /\ history[call.key].ints
    /\ history[call.key].remote = <<Some(MaxOffset)>>

\* C2: once a key has been the subject of a set_local_offset or
\* set_remote_offset call (successful or raising), its stored state is the
\* state derived from its stored offsets.
C2_StateDerivedFromOffsets ==
    \A k \in Keys :
        (history[k].local # <<>> \/ history[k].remote # <<>>)
        => Stored(k).state = ExpectedState(Stored(k).offsets)

C2_Witness ==
    /\ call.op \in SetOps
    /\ call.outcome = Raised
    /\ Stored(call.key).state = SYNCHRONIZED

\* C3: validate_local_message raises InvalidState when the key's state is
\* not LOCAL_BEHIND, raises MessageNotReady when it is LOCAL_BEHIND and the
\* offset is >= the stored remote offset, and succeeds otherwise, also when
\* the offset is below the stored local offset.
C3_ValidateOutcomes ==
    [][call'.op = "validate_local_message" =>
        LET record == Lookup(partitions, call'.key)
            offset == call'.value[1]
        IN  call'.outcome =
                IF record.state # LOCAL_BEHIND THEN "InvalidState"
                ELSE IF ~Below(offset, record.offsets.remote)
                     THEN "MessageNotReady"
                ELSE "ok"]_vars

C3_Witness ==
    /\ call.op = "validate_local_message"
    /\ call.outcome = "ok"
    /\ Below(call.value[1], Stored(call.key).offsets.local)

\* C4: a set_local_offset / set_remote_offset call invokes the callback
\* exactly once if it changed the stored state of its key and not at all
\* otherwise (a self-transition, even with a changed offset, or a raise).
C4_CallbackOncePerChange ==
    [][call'.op \in SetOps =>
        LET before == Lookup(partitions, call'.key)
            after == Lookup(partitions', call'.key)
        IN  /\ Len(callbacks') = IF before.state # after.state THEN 1 ELSE 0
            /\ call'.outcome = Raised => callbacks' = <<>>]_vars

C4_Witness ==
    /\ call.op = "set_local_offset"
    /\ call.outcome = "ok"
    /\ "local_moved_backwards" \in logged
    /\ Stored(call.key).state = LOCAL_BEHIND
    /\ callbacks = <<>>

\* C5 as stated: every set_* call whose derived state is not in
\* transitions[current state] raises InvalidStateTransition and leaves the
\* key's record unchanged.
C5_Original ==
    [][call'.op \in SetOps =>
        LET before == Lookup(partitions, call'.key)
            derived == ExpectedState(Requested(before.offsets, call'))
        IN  derived \notin transitions[before.state]
            => /\ call'.outcome = Raised
               /\ Lookup(partitions', call'.key) = before]_vars

\* C5 amended: every set_* call whose derived state differs from the current
\* state and is not in transitions[current state] raises
\* InvalidStateTransition and leaves the key's record unchanged.
C5_RejectedLeavesRecord ==
    [][call'.op \in SetOps =>
        LET before == Lookup(partitions, call'.key)
            derived == ExpectedState(Requested(before.offsets, call'))
        IN  (derived # before.state /\ derived \notin AllowedTable(before.state))
            => /\ call'.outcome = Raised
               /\ Lookup(partitions', call'.key) = before]_vars

C5_Witness ==
    /\ call.op = "set_remote_offset"
    /\ call.outcome = Raised
    /\ call.value = None
    /\ Stored(call.key).state = LOCAL_BEHIND

\* C6: a set_* call raises InvalidStateTransition exactly when the state
\* derived from the updated offsets differs from the previous state and is
\* not in transitions[previous state]; otherwise it succeeds and stores the
\* updated state and offsets.
C6_RaisesIffIllegal ==
    [][call'.op \in SetOps =>
        LET before == Lookup(partitions, call'.key)
            updated_offsets == Requested(before.offsets, call')
            derived == ExpectedState(updated_offsets)
        IN  /\ call'.outcome = Raised
                <=> (derived # before.state
                     /\ derived \notin AllowedTable(before.state))
            /\ call'.outcome # Raised
                => /\ call'.outcome = "ok"
                   /\ Lookup(partitions', call'.key) =
                        [state |-> derived, offsets |-> updated_offsets]]_vars

C6_Witness ==
    /\ call.op = "set_local_offset"
    /\ call.outcome = Raised
    /\ Stored(call.key).state = REMOTE_BEHIND

\* C7: every change of a key's stored state is a transition of the allowed
\* table; in particular no state changes to NONE and only NONE changes to
\* UNKNOWN.
C7_ChangesFollowTable ==
    [][\A k \in Keys :
        LET from == Lookup(partitions, k).state
            to == Lookup(partitions', k).state
        IN  from # to
            => /\ to \in AllowedTable(from)
               /\ to # NONE
               /\ to = UNKNOWN => from = NONE]_vars

C7_Witness ==
    /\ call.op \in SetOps
    /\ Len(callbacks) = 1
    /\ callbacks[1].previous.state = SYNCHRONIZED
    /\ callbacks[1].updated.state = REMOTE_BEHIND

\* C8: get_state_from_offsets returns UNKNOWN when a side is absent, else
\* LOCAL_BEHIND / REMOTE_BEHIND / SYNCHRONIZED as local <, >, = remote, and
\* evaluating it leaves the store as it was.
C8_DerivationTable ==
    [][call'.op = "get_state_from_offsets" =>
        /\ call'.outcome = ExpectedState(call'.value)
        /\ partitions' = partitions]_vars

C8_Witness ==
    /\ call.op = "get_state_from_offsets"
    /\ call.value.local = Some(MaxOffset)
    /\ call.value.remote = Some(MaxOffset)
    /\ call.outcome = SYNCHRONIZED
    /\ partitions # <<>>

\* C9: a set_* call with an integer lower than the stored offset of its side
\* does not raise, stores the lower value, and recomputes the state from the
\* new pair, invoking the callback iff the state changed.
C9_BackwardAccepted ==
    [][call'.op \in SetOps =>
        LET before == Lookup(partitions, call'.key)
            side == IF call'.op = "set_local_offset"
                    THEN before.offsets.local ELSE before.offsets.remote
            updated_offsets == Requested(before.offsets, call')
            derived == ExpectedState(updated_offsets)
        IN  (call'.value # None /\ Below(call'.value[1], side))
            => /\ call'.outcome = "ok"
               /\ Lookup(partitions', call'.key) =
                    [state |-> derived, offsets |-> updated_offsets]
               /\ Len(callbacks') = IF derived # before.state THEN 1 ELSE 0]_vars

C9_Witness ==
    /\ call.op = "set_remote_offset"
    /\ call.outcome = "ok"
    /\ call.value # None
    /\ "remote_moved_backwards" \in logged
    /\ Stored(call.key).offsets.remote = call.value
    /\ Stored(call.key).state = REMOTE_BEHIND
    /\ Len(callbacks) = 1

\* C10: validate_local_message, whatever its outcome, leaves the state and
\* offsets of every key as they were and invokes no callback; a stored local
\* offset changes only in a set_local_offset call for its key.
C10_ValidateIsPure ==
    [][/\ call'.op = "validate_local_message" =>
            /\ \A k \in Keys : Lookup(partitions', k) = Lookup(partitions, k)
            /\ callbacks' = <<>>
       /\ \A k \in Keys :
            Lookup(partitions', k).offsets.local # Lookup(partitions, k).offsets.local
            => (call'.op = "set_local_offset" /\ call'.key = k)]_vars

C10_Witness ==
    /\ call.op = "validate_local_message"
    /\ call.outcome = "InvalidState"
    /\ call.key \in DOMAIN partitions
    /\ partitions[call.key] = DefaultRecord

\* The pair of the last values passed to set_local_offset and
\* set_remote_offset for a key; a side never set is absent.
LastPairOf(h, key) ==
    [local |-> IF h[key].local = <<>> THEN None ELSE h[key].local[1],
     remote |-> IF h[key].remote = <<>> THEN None ELSE h[key].remote[1]]

LastPair(key) == LastPairOf(history, key)

AllIdle == \A t \in Threads : threads[t].pc = "idle"

\* C11: with integer values, when no two calls for a key were ever in
\* progress at once, every state with no call in progress stores the last
\* local and the last remote value and the state the latest callback
\* reported; C11_Witness is the reachable final state of two interleaved
\* calls in which an update is lost and the latest callback reported a state
\* that is not the one stored.
C11_ExclusionKeepsBoth ==
    (AllIdle /\ ~raced)
    => \A k \in Keys :
          history[k].ints
          => /\ Stored(k).offsets = LastPair(k)
             /\ last_callback[k] = Stored(k).state

C11_Witness ==
    /\ AllIdle
    /\ history[RaceKey].ints
    /\ history[RaceKey].local # <<>>
    /\ history[RaceKey].remote # <<>>
    /\ Stored(RaceKey).offsets # LastPair(RaceKey)
    /\ last_callback[RaceKey] # Stored(RaceKey).state

\* C12: a successful set_local_offset(v) stores (v, previous remote) and a
\* successful set_remote_offset(v) stores (previous local, v); so while a
\* key's calls pass integers its stored pair is (last local value, last
\* remote value), a side being absent iff it was never set.
C12_OneSidePerUpdate ==
    [][call'.op \in SetOps =>
        LET before == Lookup(partitions, call'.key).offsets
            after == Lookup(partitions', call'.key).offsets
        IN  /\ call'.outcome = "ok" => after = Requested(before, call')
            /\ history'[call'.key].ints
                => after = LastPairOf(history', call'.key)]_vars

C12_Witness ==
    /\ call.op = "set_remote_offset"
    /\ call.outcome = "ok"
    /\ history[call.key].ints
    /\ history[call.key].local = <<Some(MaxOffset)>>
    /\ history[call.key].remote = <<Some(0)>>
    /\ Stored(call.key).offsets = LastPair(call.key)

\* C13: on the fresh key (T, 0), set_remote_offset(100) leaves UNKNOWN with
\* offsets (absent, 100); set_local_offset(50) gives LOCAL_BEHIND and one
\* callback UNKNOWN -> LOCAL_BEHIND; validate_local_message(60) succeeds;
\* set_local_offset(100) gives SYNCHRONIZED and one callback; after that
\* validate_local_message raises InvalidState for every offset.
C13_Scenario ==
    /\ step = 1 =>
          Stored(ScenarioKey) =
              [state |-> UNKNOWN,
               offsets |-> [local |-> None, remote |-> Some(100)]]
    /\ step = 2 =>
          /\ Stored(ScenarioKey).state = LOCAL_BEHIND
          /\ Len(callbacks) = 1
          /\ callbacks[1].key = ScenarioKey
          /\ callbacks[1].previous.state = UNKNOWN
          /\ callbacks[1].updated.state = LOCAL_BEHIND
    /\ step = 3 => call.outcome = "ok"
    /\ step = 4 =>
          /\ Stored(ScenarioKey).state = SYNCHRONIZED
          /\ Len(callbacks) = 1
          /\ callbacks[1].updated.state = SYNCHRONIZED
    /\ step = 5 => call.outcome = "InvalidState"

C13_Witness ==
    /\ step = 5
    /\ call.op = "validate_local_message"
    /\ call.value = Some(60)
    /\ call.outcome = "InvalidState"
    /\ Stored(ScenarioKey).offsets = [local |-> Some(100), remote |-> Some(100)]

\* C14: every callback invocation of a set_* call carries the key of the
\* call, previous = the record stored for the key before the call and
\* updated = the record stored when the callback runs (the store is written
\* first); the two states differ and the two offsets pairs agree on the side
\* the call did not update.
C14_CallbackSnapshot ==
    [][call'.op \in SetOps =>
        \A i \in 1..Len(callbacks') :
            LET invocation == callbacks'[i]
                before == Lookup(partitions, call'.key)
                after == Lookup(partitions', call'.key)
            IN  /\ invocation.key = call'.key
                /\ invocation.previous = before
                /\ invocation.updated = after
                /\ invocation.stored = invocation.updated
                /\ invocation.previous.state # invocation.updated.state
                /\ call'.op = "set_local_offset" =>
                      invocation.previous.offsets.remote =
                          invocation.updated.offsets.remote
                /\ call'.op = "set_remote_offset" =>
                      invocation.previous.offsets.local =
                          invocation.updated.offsets.local]_vars

C14_Witness ==
    /\ call.op = "set_local_offset"
    /\ Len(callbacks) = 1
    /\ callbacks[1].previous.state = REMOTE_BEHIND
    /\ callbacks[1].updated.state = LOCAL_BEHIND
    /\ callbacks[1].stored = Stored(call.key)
    /\ callbacks[1].previous.offsets.local # callbacks[1].updated.offsets.local

\* The record before any update: state NONE, both offsets absent.
Fresh == [state |-> NONE, offsets |-> [local |-> None, remote |-> None]]

\* C15 as stated: the first set_* call for a never-updated key succeeds,
\* leaves UNKNOWN with exactly the updated side present and the other side
\* absent, and fires the callback once with previous = (NONE, (absent,
\* absent)) and updated state UNKNOWN.
C15_Original ==
    [][(call'.op \in SetOps /\ Lookup(partitions, call'.key).state = NONE) =>
        LET after == Lookup(partitions', call'.key)
        IN  /\ call'.outcome = "ok"
            /\ after.state = UNKNOWN
            /\ IF call'.op = "set_local_offset"
               THEN after.offsets.local # None /\ after.offsets.remote = None
               ELSE after.offsets.remote # None /\ after.offsets.local = None
            /\ Len(callbacks') = 1
            /\ callbacks'[1].previous = Fresh
            /\ callbacks'[1].updated.state = UNKNOWN]_vars

\* C15 amended: the first set_* call for a never-updated key succeeds, leaves
\* UNKNOWN with the updated side equal to the value passed (present iff the
\* value is an integer) and the other side absent, and fires the callback
\* once with previous = (NONE, (absent, absent)) and updated state UNKNOWN.
C15_FirstCall ==
    [][(call'.op \in SetOps /\ Lookup(partitions, call'.key).state = NONE) =>
        LET after == Lookup(partitions', call'.key)
        IN  /\ call'.outcome = "ok"
            /\ after.state = UNKNOWN
            /\ IF call'.op = "set_local_offset"
               THEN after.offsets = [local |-> call'.value, remote |-> None]
               ELSE after.offsets = [local |-> None, remote |-> call'.value]
            /\ Len(callbacks') = 1
            /\ callbacks'[1].key = call'.key
            /\ callbacks'[1].previous = Fresh
            /\ callbacks'[1].updated = after]_vars

C15_Witness ==
    /\ call.op = "set_remote_offset"
    /\ call.outcome = "ok"
    /\ Len(callbacks) = 1
    /\ callbacks[1].previous = Fresh
    /\ Stored(call.key) =
          [state |-> UNKNOWN,
           offsets |-> [local |-> None, remote |-> Some(MaxOffset)]]

\* C16: a set_local_offset, set_remote_offset or validate_local_message call
\* for one key, successful or raising, leaves the record of every other key
\* as it was and invokes the callback only with its own key.
C16_KeysIndependent ==
    [][call'.op \in SetOps \cup {"validate_local_message"} =>
        /\ \A k \in Keys \ {call'.key} :
              Lookup(partitions', k) = Lookup(partitions, k)
        /\ \A i \in 1..Len(callbacks') : callbacks'[i].key = call'.key]_vars

C16_Witness ==
    /\ call.op \in SetOps
    /\ call.outcome = "ok"
    /\ Len(callbacks) = 1
    /\ Stored(call.key).state = LOCAL_BEHIND
    /\ \E k \in Keys \ {call.key} : Stored(k).state = SYNCHRONIZED

\* C17: while every value passed to set_local_offset / set_remote_offset for
\* a key is an integer, no call for that key raises InvalidStateTransition.
C17_IntegersNeverRaise ==
    (call.op \in SetOps /\ history[call.key].ints) => call.outcome # Raised

C17_Witness ==
    /\ call.op \in SetOps
    /\ history[call.key].ints
    /\ call.outcome = "ok"
    /\ Len(callbacks) = 1
    /\ callbacks[1].previous.state = REMOTE_BEHIND
    /\ callbacks[1].updated.state = LOCAL_BEHIND

\* C18: under serialized calls the callback stream tracks the store: for
\* each key the updated state of its latest callback is its stored state
\* (NONE when no callback has fired), and each callback's previous state is
\* the updated state of the key's preceding callback.
C18_CallbacksTrackState ==
    [][/\ \A k \in Keys : last_callback'[k] = Lookup(partitions', k).state
       /\ \A i \in 1..Len(callbacks') :
             call'.op \in SetOps =>
                callbacks'[i].previous.state =
                    last_callback[callbacks'[i].key]]_vars

C18_Witness ==
    /\ call.op \in SetOps
    /\ Len(callbacks) = 1
    /\ callbacks[1].previous.state = LOCAL_BEHIND
    /\ last_callback[call.key] = SYNCHRONIZED
    /\ Stored(call.key).state = SYNCHRONIZED
    /\ \E k \in Keys : last_callback[k] = NONE /\ k \in DOMAIN partitions

\* C19: also when set_* calls on a key interleave with no mutual exclusion,
\* every record written to the store has the state derived from its own
\* offsets; the race loses an update but stores no state that disagrees
\* with its offsets.
C19_RaceKeepsStateDerived ==
    \A k \in DOMAIN partitions :
        \/ partitions[k] = Fresh
        \/ partitions[k].state = ExpectedState(partitions[k].offsets)

C19_Witness ==
    /\ raced
    /\ AllIdle
    /\ history[RaceKey].ints
    /\ history[RaceKey].local # <<>>
    /\ history[RaceKey].remote # <<>>
    /\ Stored(RaceKey).offsets # LastPair(RaceKey)
    /\ Stored(RaceKey).state = UNKNOWN

\* C20: while a key's set_* calls pass integers, its state is NONE before
\* any of them, UNKNOWN exactly while one side has been set and the other has
\* not, and one of LOCAL_BEHIND, REMOTE_BEHIND, SYNCHRONIZED once both
\* set_local_offset and set_remote_offset have been called.
C20_UnknownUntilBothSet ==
    \A k \in Keys :
        history[k].ints =>
            LET local_set == history[k].local # <<>>
                remote_set == history[k].remote # <<>>
                state == Stored(k).state
            IN  /\ state = UNKNOWN <=> (local_set /\ ~remote_set)
                                       \/ (remote_set /\ ~local_set)
                /\ (local_set /\ remote_set)
                      => state \in {LOCAL_BEHIND, REMOTE_BEHIND, SYNCHRONIZED}
                /\ state = NONE <=> (~local_set /\ ~remote_set)

C20_Witness ==
    /\ \E k \in Keys :
          /\ history[k].ints
          /\ history[k].local # <<>>
          /\ history[k].remote # <<>>
          /\ Stored(k).state = SYNCHRONIZED
    /\ \E k \in Keys :
          /\ history[k].ints
          /\ history[k].local = <<>>
          /\ history[k].remote # <<>>
          /\ Stored(k).state = UNKNOWN

====
